---- MODULE Spec2Model ----
(***************************************************************************)
(* cliStocksTracker: one run of main() -- verify_config_keys, populate,     *)
(* gen_graphs, print_graphs, print_table -- over a Portfolio ledger, with   *)
(* the cost-basis calculation (Portfolio.average_buyin) and the NaN repair  *)
(* of Graph.gen_graph as operators computed the way the code computes them. *)
(*                                                                         *)
(* Python floats are modelled as exact rationals [nan, n, d] (n/d in lowest *)
(* terms, d > 0) plus one NaN value; rounding error is not modelled.        *)
(***************************************************************************)
EXTENDS Integers, Sequences, FiniteSets, TLC

VARIABLES
    pc,                 \* position of the run
    error,              \* the exception that ended the run, or None
    config,             \* portfolio.ini: the sections, in file order
    market_data,        \* the batch fetch: symbol -> list of "Open" samples
    independent_graphs, \* display mode gen_graphs was called with
    stocks,             \* Portfolio.stocks (insertion-ordered dict), as a sequence
    stocks_metadata,    \* Portfolio.stocks_metadata: symbol -> <<count, value>>
    initial_value,      \* Portfolio.initial_value
    color_list,         \* Portfolio.color_list
    graphs,             \* Portfolio.graphs
    current_value,      \* Portfolio.current_value
    opening_value,      \* Portfolio.opening_value
    populated,          \* populate() has returned
    output,             \* what the run has written to the terminal
    call_args,          \* arguments of a function under test
    call_ret            \* its result

vars == <<pc, error, config, market_data, independent_graphs, stocks,
          stocks_metadata, initial_value, color_list, graphs, current_value,
          opening_value, populated, output, call_args, call_ret>>

None == "None"

(***************************************************************************)
(* Bounds of the model.                                                    *)
(***************************************************************************)
MaxStocks == 2      \* sections of portfolio.ini
MaxLots == 2        \* lots per buy list and per sell list (average_buyin)
MaxSamples == 4     \* samples per series (NaN repair)

(***************************************************************************)
(* Floats.                                                                 *)
(***************************************************************************)
Abs(x) == IF x < 0 THEN -x ELSE x

RECURSIVE Gcd(_, _)
Gcd(a, b) == IF b = 0 THEN a ELSE Gcd(b, a % b)

\* the float n/d, d # 0
Rat(n, d) ==
    LET g == Gcd(Abs(n), Abs(d))
        s == IF d < 0 THEN -1 ELSE 1
    IN  [nan |-> FALSE, n |-> (s * n) \div g, d |-> (s * d) \div g]

NaN == [nan |-> TRUE, n |-> 0, d |-> 1]

\* float(i) of an integer
float(i) == Rat(i, 1)

isnan(x) == x.nan

FAdd(a, b) == IF a.nan \/ b.nan THEN NaN ELSE Rat(a.n * b.d + b.n * a.d, a.d * b.d)
FSub(a, b) == IF a.nan \/ b.nan THEN NaN ELSE Rat(a.n * b.d - b.n * a.d, a.d * b.d)
FMul(a, b) == IF a.nan \/ b.nan THEN NaN ELSE Rat(a.n * b.n, a.d * b.d)
\* a < b and a > b; every comparison with NaN is false
FLt(a, b) == ~a.nan /\ ~b.nan /\ a.n * b.d < b.n * a.d
FGt(a, b) == FLt(b, a)
\* x == 0 (false of NaN)
FIsZero(x) == ~x.nan /\ x.n = 0

(***************************************************************************)
(* Portfolio.average_buyin.  A lot "c@p" is [c |-> c, p |-> p].             *)
(***************************************************************************)
\* lot_rejected with a fault: only a negative quantity is rejected
lot_rejected_neg(next_c) == next_c < 0

\* `if next_c <= 0:` (then the message and exit())
lot_rejected(next_c) == next_c <= 0

\* lot_cost with a fault: the price is not weighted by the quantity
lot_cost_unweighted(price, next_c) == price

\* `float(buy[1]) * next_c`
lot_cost(price, next_c) == price * next_c

\* one of the two `for` loops over lots: the running count and cost, or exit()
RECURSIVE sum_lots(_, _, _, _)
sum_lots(lots, i, c, p) ==
    IF i > Len(lots)
    THEN [exit |-> FALSE, c |-> c, p |-> p]
    ELSE LET next_c == lots[i].c
         IN  IF lot_rejected(next_c)
             THEN [exit |-> TRUE, c |-> c, p |-> p]
             ELSE sum_lots(lots, i + 1, c + next_c, p + lot_cost(lots[i].p, next_c))

average_buyin(buys, sells) ==
    LET b == sum_lots(buys, 1, 0, 0)
        s == sum_lots(sells, 1, 0, 0)
        count == b.c - s.c
    IN  IF b.exit \/ s.exit
        THEN [exit |-> TRUE, count |-> float(0), bought_at |-> float(0)]
        ELSE IF count = 0
        THEN [exit |-> FALSE, count |-> float(0), bought_at |-> float(0)]
        ELSE [exit |-> FALSE, count |-> float(count),
              bought_at |-> Rat(b.p - s.p, count)]

(***************************************************************************)
(* Stock and the Portfolio ledger.  The ledger is handled as the record     *)
(* [stocks, stocks_metadata, initial_value, color_list].                    *)
(***************************************************************************)
\* Stock.__init__
Stock(symbol) ==
    [symbol |-> symbol, value |-> float(0), data |-> <<>>, graph |-> FALSE,
     color |-> None]

\* Stock.get_curr / the data[-1] of calc_value
get_curr(stock) == stock.data[Len(stock.data)]

\* Stock.get_open
get_open(stock) == stock.data[1]

\* calc_value with a fault: the opening sample instead of the last one
calc_value_open(stock, stocks_count) == FMul(stock.data[1], stocks_count)

\* Stock.calc_value
calc_value(stock, stocks_count) == FMul(stock.data[Len(stock.data)], stocks_count)

\* Portfolio.__init__
Portfolio ==
    [stocks |-> <<>>, stocks_metadata |-> <<>>, initial_value |-> float(0),
     color_list |-> <<>>]

\* position of a symbol among the dict's keys, 0 when absent
KeyIndex(stks, symbol) ==
    IF \E i \in 1..Len(stks) : stks[i].symbol = symbol
    THEN CHOOSE i \in 1..Len(stks) : stks[i].symbol = symbol
    ELSE 0

\* d[key] = value on an insertion-ordered dict of stocks
DictSet(stks, stock) ==
    LET i == KeyIndex(stks, stock.symbol)
    IN  IF i = 0 THEN Append(stks, stock) ELSE [stks EXCEPT ![i] = stock]

\* Portfolio.add_stock
add_stock(P, stock, count, value, color) ==
    [stocks |-> DictSet(P.stocks, stock),
     stocks_metadata |->
        [s \in DOMAIN P.stocks_metadata \cup {stock.symbol} |->
            IF s = stock.symbol THEN <<count, value>> ELSE P.stocks_metadata[s]],
     initial_value |-> FAdd(P.initial_value, FMul(count, value)),
     color_list |-> Append(P.color_list, color)]

(***************************************************************************)
(* Portfolio.populate.                                                     *)
(***************************************************************************)
\* webcolors.CSS3_NAMES_TO_HEX.keys(), as far as the configurations use it
CSS3_NAMES == {"red", "blue"}

\* the strings c of the configurations with c.startswith("#")
HexStrings == {"#00ff00"}

\* lines 285-301: the color handed to add_stock
checked_color(color) ==
    IF color = None THEN None
    ELSE IF color \in HexStrings \/ color \in CSS3_NAMES THEN color
    ELSE None

\* populate_one with a fault: a symbol without samples is skipped
populate_one_skip_empty(P, sec, data) ==
    IF Len(data) = 0
    THEN [status |-> "ok", P |-> P]
    ELSE LET new_stock == [Stock(sec.symbol) EXCEPT
                              !.data = data,
                              !.value = data[Len(data)],
                              !.graph = (sec.graph = "True")]
             r == average_buyin(sec.buy, sec.sell)
         IN  IF r.exit
             THEN [status |-> "exit", P |-> P]
             ELSE [status |-> "ok",
                   P |-> add_stock(P, new_stock, r.count, r.bought_at,
                                   checked_color(sec.color))]

\* the body of populate's loop for one ticker: data[-1] raises IndexError on an
\* empty list, average_buyin may exit()
populate_one(P, sec, data) ==
    IF Len(data) = 0
    THEN [status |-> "IndexError", P |-> P]
    ELSE LET new_stock == [Stock(sec.symbol) EXCEPT
                              !.data = data,
                              !.value = data[Len(data)],
                              !.graph = (sec.graph = "True")]
             r == average_buyin(sec.buy, sec.sell)
         IN  IF r.exit
             THEN [status |-> "exit", P |-> P]
             ELSE [status |-> "ok",
                   P |-> add_stock(P, new_stock, r.count, r.bought_at,
                                   checked_color(sec.color))]

\* populate's loop from the i-th ticker on; the batch fetch has one column per
\* requested ticker, in the order of stocks_config.sections()
RECURSIVE populate_loop(_, _, _, _)
populate_loop(P, cfg, md, i) ==
    IF i > Len(cfg)
    THEN [status |-> "ok", P |-> P]
    ELSE LET r == populate_one(P, cfg[i], md[cfg[i].symbol])
         IN  IF r.status = "ok" THEN populate_loop(r.P, cfg, md, i + 1) ELSE r

(***************************************************************************)
(* Graph.                                                                  *)
(***************************************************************************)
\* the modulus of the automatic color cycle
AutoColorCycle == 67

\* find_y_range's starting y_min; the source's 10000000000000 is beyond TLC's
\* integers and is only ever compared with samples, which are below both
Y_MIN_START == 2147483647

\* Python's min() and max() of a non-empty list (a NaN never compares)
RECURSIVE PyMin(_, _, _)
PyMin(data, i, m) ==
    IF i > Len(data) THEN m
    ELSE PyMin(data, i + 1, IF FLt(data[i], m) THEN data[i] ELSE m)

RECURSIVE PyMax(_, _, _)
PyMax(data, i, m) ==
    IF i > Len(data) THEN m
    ELSE PyMax(data, i + 1, IF FGt(data[i], m) THEN data[i] ELSE m)

min(data) == PyMin(data, 2, data[1])
max(data) == PyMax(data, 2, data[1])

\* Graph.find_y_range over the stocks of a graph, from the i-th on
RECURSIVE find_y_range(_, _, _, _, _)
find_y_range(gstocks, stks, i, y_min, y_max) ==
    IF i > Len(gstocks)
    THEN <<y_min, y_max>>
    ELSE LET data == stks[KeyIndex(stks, gstocks[i])].data
         IN  find_y_range(gstocks, stks, i + 1,
                          IF FGt(y_min, min(data)) THEN min(data) ELSE y_min,
                          IF FLt(y_max, max(data)) THEN max(data) ELSE y_max)

\* Graph.__init__: the stocks are references into the ledger (their symbols)
Graph(gstocks, colors) ==
    [stocks |-> gstocks, colors |-> colors, y_min |-> float(0), y_max |-> float(0),
     lines |-> <<>>, graph |-> FALSE]

\* lines 588-595: the RGB color of the i-th (0-based) stock of a graph
line_color(colors, i) ==
    IF colors[i + 1] = None
    THEN [src |-> "auto_colors", idx |-> i % AutoColorCycle, name |-> ""]
    ELSE IF colors[i + 1] \in HexStrings
    THEN [src |-> "hex", idx |-> 0, name |-> colors[i + 1]]
    ELSE [src |-> "CSS3", idx |-> 0, name |-> colors[i + 1]]

\* neighbour with a fault: the left neighbour only from q = 2 on
neighbour_late(q) == IF q - 1 > 0 THEN q - 1 ELSE q + 1

\* `index = q - 1 if q - 1 >=0 else q + 1` (0-based)
neighbour(q) == IF q - 1 >= 0 THEN q - 1 ELSE q + 1

\* lines 600-603 from q (0-based) on: the repaired list, or IndexError
RECURSIVE repair_from(_, _)
repair_from(data, q) ==
    IF q >= Len(data)
    THEN [err |-> None, data |-> data]
    ELSE IF isnan(data[q + 1])
    THEN LET index == neighbour(q)
         IN  IF index >= Len(data)
             THEN [err |-> "IndexError", data |-> data]
             ELSE repair_from([data EXCEPT ![q + 1] = data[index + 1]], q + 1)
    ELSE repair_from(data, q + 1)

repair_nans(data) == repair_from(data, 0)

\* gen_graph's loop over the graph's stocks from the i-th (0-based) on; the
\* repair writes into the ledger's own Stock
RECURSIVE plot_stocks(_, _, _)
plot_stocks(g, stks, i) ==
    IF i >= Len(g.stocks)
    THEN [err |-> None, g |-> [g EXCEPT !.graph = TRUE], stocks |-> stks]
    ELSE LET k == KeyIndex(stks, g.stocks[i + 1])
             r == repair_nans(stks[k].data)
             stks2 == [stks EXCEPT ![k].data = r.data]
         IN  IF r.err # None
             THEN [err |-> r.err, g |-> g, stocks |-> stks2]
             ELSE plot_stocks(
                     [g EXCEPT !.lines = Append(@,
                         [label |-> stks[k].symbol, lc |-> line_color(g.colors, i),
                          data |-> r.data])],
                     stks2, i + 1)

\* Graph.gen_graph
gen_graph(g, stks) ==
    LET yr == find_y_range(g.stocks, stks, 1, float(Y_MIN_START), float(0))
    IN  plot_stocks([g EXCEPT !.y_min = yr[1], !.y_max = yr[2]], stks, 0)

(***************************************************************************)
(* Portfolio.gen_graphs.                                                   *)
(***************************************************************************)
\* the symbols of the graph-flagged stocks, in ledger order (lines 310-313)
RECURSIVE graphing_list(_, _)
graphing_list(stks, i) ==
    IF i > Len(stks) THEN <<>>
    ELSE (IF stks[i].graph THEN <<stks[i].symbol>> ELSE <<>>)
         \o graphing_list(stks, i + 1)

\* color_list[:n]
Slice(list, n) == SubSeq(list, 1, IF n < Len(list) THEN n ELSE Len(list))

\* combined_graphs with a fault: a chart is built even for an empty list
combined_graphs_unguarded(glist, colors) == <<Graph(glist, Slice(colors, Len(glist)))>>

\* lines 314-323: the one combined chart, if anything is graph-flagged
combined_graphs(glist, colors) ==
    IF Len(glist) > 0 THEN <<Graph(glist, Slice(colors, Len(glist)))>> ELSE <<>>

\* lines 325-335: one chart per graph-flagged stock, from the i-th (0-based) on
RECURSIVE separate_graphs(_, _, _)
separate_graphs(stks, colors, i) ==
    IF i >= Len(stks) THEN <<>>
    ELSE (IF stks[i + 1].graph
          THEN <<Graph(<<stks[i + 1].symbol>>, <<colors[i + 1]>>)>>
          ELSE <<>>)
         \o separate_graphs(stks, colors, i + 1)

\* lines 336-337: gen_graph on every chart from the j-th on
RECURSIVE gen_all(_, _, _)
gen_all(gs, stks, j) ==
    IF j > Len(gs)
    THEN [err |-> None, graphs |-> gs, stocks |-> stks]
    ELSE LET r == gen_graph(gs[j], stks)
         IN  IF r.err # None
             THEN [err |-> r.err, graphs |-> gs, stocks |-> r.stocks]
             ELSE gen_all([gs EXCEPT ![j] = r.g], r.stocks, j + 1)

gen_graphs(stks, colors, independent) ==
    gen_all(IF ~independent
            THEN combined_graphs(graphing_list(stks, 1), colors)
            ELSE separate_graphs(stks, colors, 0),
            stks, 1)

(***************************************************************************)
(* Portfolio.print_table and print_gains.                                  *)
(***************************************************************************)
FDiv(a, b) == IF a.nan \/ b.nan THEN NaN ELSE Rat(a.n * b.d, a.d * b.n)

RECURSIVE sum(_, _)
sum(data, i) == IF i > Len(data) THEN float(0) ELSE FAdd(data[i], sum(data, i + 1))

\* the loop of lines 423-497 from the i-th stock on: the rows and the two
\* totals, or ZeroDivisionError from the change% of a stock whose last sample is 0
RECURSIVE table_rows(_, _, _, _)
table_rows(stks, meta, i, acc) ==
    IF i > Len(stks) THEN acc
    ELSE LET stock == stks[i]
             owned == meta[stock.symbol][1]
             change == FSub(get_curr(stock), get_open(stock))
         IN  IF FIsZero(get_curr(stock))
             THEN [acc EXCEPT !.err = "ZeroDivisionError"]
             ELSE table_rows(stks, meta, i + 1,
                    [err |-> None,
                     rows |-> Append(acc.rows,
                        [symbol |-> stock.symbol,
                         last |-> get_curr(stock),
                         change |-> change,
                         change_p |-> FMul(FDiv(change, get_curr(stock)), float(100)),
                         low |-> min(stock.data),
                         high |-> max(stock.data),
                         avg |-> FDiv(sum(stock.data, 1), float(Len(stock.data))),
                         owned |-> owned,
                         mkt_value |-> calc_value(stock, owned),
                         avg_share |-> meta[stock.symbol][2],
                         cost |-> FMul(owned, meta[stock.symbol][2])]),
                     current_value |-> FAdd(acc.current_value, calc_value(stock, owned)),
                     opening_value |-> FAdd(acc.opening_value,
                                            FMul(get_open(stock), owned))])

\* Portfolio.print_gains: the line it prints, or ZeroDivisionError from
\* gain / self.current_value
print_gains(gain, timespan, cur) ==
    IF FIsZero(cur)
    THEN [err |-> "ZeroDivisionError", line |-> <<>>]
    ELSE [err |-> None,
          line |-> <<[timespan |-> timespan, gain |-> gain,
                      percent |-> FMul(FDiv(gain, cur), float(100))]>>]

(***************************************************************************)
(* The inputs of a run.                                                    *)
(***************************************************************************)
\* the tickers a portfolio.ini may list, in file order
Symbols == <<"AAA", "BBB", "CCC", "DDD">>

\* the value of a section's "graph" key ("False" also stands for no key)
GraphValues == {"True", "False"}

\* the value of a section's "color" key (None: no key)
ColorValues == {None, "red"}

\* the "buy" and "sell" keys of a section (<<>>: no key): nothing traded, a
\* position of 2 left of 3 bought, a buy of quantity 0, a sell of quantity -1
TradeValues ==
    {[buy |-> <<>>, sell |-> <<>>],
     [buy |-> <<[c |-> 2, p |-> 5], [c |-> 1, p |-> 8]>>, sell |-> <<[c |-> 1, p |-> 6]>>],
     [buy |-> <<[c |-> 0, p |-> 5]>>, sell |-> <<>>],
     [buy |-> <<[c |-> 2, p |-> 5]>>, sell |-> <<[c |-> -1, p |-> 6]>>]}

\* the "Open" column the fetch returns for a ticker
DataValues ==
    {<<>>, <<float(5), float(7)>>, <<float(5), NaN, float(7)>>, <<NaN>>}

SectionValues ==
    [graph : GraphValues, color : ColorValues, trade : TradeValues]

Configs ==
    UNION {{[i \in 1..n |-> [symbol |-> Symbols[i], graph |-> b[i].graph,
                             color |-> b[i].color, buy |-> b[i].trade.buy,
                             sell |-> b[i].trade.sell]] :
                b \in [1..n -> SectionValues]} : n \in 0..MaxStocks}

\* stocks_config.sections()
sections(cfg) == {cfg[i].symbol : i \in 1..Len(cfg)}

\* the output of a run: the messages, the number of charts drawn, the table
\* (its rows), the "Value Gained/Lost" lines
NoOutput ==
    [messages |-> <<>>, charts |-> 0, table_printed |-> FALSE, table |-> <<>>,
     gains |-> <<>>]

(***************************************************************************)
(* main().                                                                 *)
(***************************************************************************)
Init ==
    /\ pc = "verify_config_keys"
    /\ error = None
    /\ config \in Configs
    /\ market_data \in [sections(config) -> DataValues]
    /\ independent_graphs = FALSE
    /\ stocks = Portfolio.stocks
    /\ stocks_metadata = Portfolio.stocks_metadata
    /\ initial_value = Portfolio.initial_value
    /\ color_list = Portfolio.color_list
    /\ graphs = <<>>
    /\ current_value = float(0)
    /\ opening_value = float(0)
    /\ populated = FALSE
    /\ output = NoOutput
    /\ call_args = <<>>
    /\ call_ret = <<>>

\* verify_config_keys (config.ini taken as valid): the message about an empty
\* portfolio.ini, and a return to main() either way
VerifyConfigKeys ==
    /\ pc = "verify_config_keys"
    /\ output' = IF sections(config) = {}
                 THEN [output EXCEPT !.messages = Append(@, "nothing to show")]
                 ELSE output
    /\ pc' = "populate"
    /\ UNCHANGED <<error, config, market_data, independent_graphs, stocks,
                   stocks_metadata, initial_value, color_list, graphs,
                   current_value, opening_value, populated, call_args, call_ret>>

\* portfolio.populate(stocks_config, args)
Populate ==
    /\ pc = "populate"
    /\ LET r == populate_loop([stocks |-> stocks, stocks_metadata |-> stocks_metadata,
                               initial_value |-> initial_value,
                               color_list |-> color_list],
                              config, market_data, 1)
       IN  /\ stocks' = r.P.stocks
           /\ stocks_metadata' = r.P.stocks_metadata
           /\ initial_value' = r.P.initial_value
           /\ color_list' = r.P.color_list
           /\ populated' = (r.status = "ok")
           /\ pc' = CASE r.status = "ok" -> "gen_graphs"
                      [] r.status = "exit" -> "exited"
                      [] OTHER -> "crashed"
           /\ error' = IF r.status \in {"ok", "exit"} THEN None ELSE r.status
           /\ output' = IF r.status = "exit"
                        THEN [output EXCEPT !.messages =
                                 Append(@, "negative key detected")]
                        ELSE output
    /\ UNCHANGED <<config, market_data, independent_graphs, graphs, current_value,
                   opening_value, call_args, call_ret>>

\* portfolio.gen_graphs(...); the display mode is read from config.ini and the
\* arguments when the call is made
GenGraphs ==
    /\ pc = "gen_graphs"
    /\ \E independent \in BOOLEAN :
       LET r == gen_graphs(stocks, color_list, independent)
       IN  /\ independent_graphs' = independent
           /\ stocks' = r.stocks
           /\ IF r.err # None
              THEN /\ pc' = "crashed"
                   /\ error' = r.err
                   /\ UNCHANGED graphs
              ELSE /\ pc' = "print_graphs"
                   /\ graphs' = r.graphs
                   /\ UNCHANGED error
    /\ UNCHANGED <<config, market_data, stocks_metadata, initial_value,
                   color_list, current_value, opening_value, populated, output,
                   call_args, call_ret>>

\* portfolio.print_graphs()
PrintGraphs ==
    /\ pc = "print_graphs"
    /\ output' = [output EXCEPT !.charts = @ + Len(graphs)]
    /\ pc' = "print_table"
    /\ UNCHANGED <<error, config, market_data, independent_graphs, stocks,
                   stocks_metadata, initial_value, color_list, graphs,
                   current_value, opening_value, populated, call_args, call_ret>>

\* portfolio.print_table(...): the rows and totals, print_portfolio_summary,
\* then print_gains for "Today" and for "Overall"
PrintTable ==
    /\ pc = "print_table"
    /\ LET t == table_rows(stocks, stocks_metadata, 1,
                           [err |-> None, rows |-> <<>>, current_value |-> float(0),
                            opening_value |-> float(0)])
           day == print_gains(FSub(t.current_value, t.opening_value), "Today",
                              t.current_value)
           all == print_gains(FSub(t.current_value, initial_value), "Overall",
                              t.current_value)
       IN  /\ current_value' = t.current_value
           /\ opening_value' = t.opening_value
           /\ IF t.err # None
              THEN /\ pc' = "crashed"
                   /\ error' = t.err
                   /\ UNCHANGED output
              ELSE IF day.err # None
              THEN /\ pc' = "crashed"
                   /\ error' = day.err
                   /\ output' = [output EXCEPT !.table_printed = TRUE,
                                               !.table = t.rows]
              ELSE IF all.err # None
              THEN /\ pc' = "crashed"
                   /\ error' = all.err
                   /\ output' = [output EXCEPT !.table_printed = TRUE,
                                               !.table = t.rows,
                                               !.gains = day.line]
              ELSE /\ pc' = "done"
                   /\ UNCHANGED error
                   /\ output' = [output EXCEPT !.table_printed = TRUE,
                                               !.table = t.rows,
                                               !.gains = day.line \o all.line]
    /\ UNCHANGED <<config, market_data, independent_graphs, stocks, stocks_metadata,
                   initial_value, color_list, graphs, populated, call_args, call_ret>>

Next ==
    \/ VerifyConfigKeys
    \/ Populate
    \/ GenGraphs
    \/ PrintGraphs
    \/ PrintTable

Spec == Init /\ [][Next]_vars

(***************************************************************************)
(* average_buyin on its own: every pair of lot lists up to MaxLots lots.    *)
(***************************************************************************)
Quantities == 0..2
Prices == {3, 5}
Lots == [c : Quantities, p : Prices]
LotLists == UNION {[1..n -> Lots] : n \in 0..MaxLots}

InitBuyin ==
    /\ pc = "call"
    /\ call_args \in [buys : LotLists, sells : LotLists]
    /\ call_ret = <<>>
    /\ error = None
    /\ config = <<>>
    /\ market_data = <<>>
    /\ independent_graphs = FALSE
    /\ stocks = Portfolio.stocks
    /\ stocks_metadata = Portfolio.stocks_metadata
    /\ initial_value = Portfolio.initial_value
    /\ color_list = Portfolio.color_list
    /\ graphs = <<>>
    /\ current_value = float(0)
    /\ opening_value = float(0)
    /\ populated = FALSE
    /\ output = NoOutput

CallAverageBuyin ==
    /\ pc = "call"
    /\ call_ret' = average_buyin(call_args.buys, call_args.sells)
    /\ pc' = "returned"
    /\ UNCHANGED <<error, config, market_data, independent_graphs, stocks,
                   stocks_metadata, initial_value, color_list, graphs,
                   current_value, opening_value, populated, output, call_args>>

SpecBuyin == InitBuyin /\ [][CallAverageBuyin]_vars

(***************************************************************************)
(* The NaN repair of gen_graph on its own: every series up to MaxSamples.   *)
(***************************************************************************)
SampleValues == {NaN, float(5), float(7)}
SampleLists == UNION {[1..n -> SampleValues] : n \in 0..MaxSamples}

InitRepair ==
    /\ pc = "call"
    /\ call_args \in SampleLists
    /\ call_ret = <<>>
    /\ error = None
    /\ config = <<>>
    /\ market_data = <<>>
    /\ independent_graphs = FALSE
    /\ stocks = Portfolio.stocks
    /\ stocks_metadata = Portfolio.stocks_metadata
    /\ initial_value = Portfolio.initial_value
    /\ color_list = Portfolio.color_list
    /\ graphs = <<>>
    /\ current_value = float(0)
    /\ opening_value = float(0)
    /\ populated = FALSE
    /\ output = NoOutput

CallRepair ==
    /\ pc = "call"
    /\ call_ret' = repair_nans(call_args)
    /\ pc' = "returned"
    /\ UNCHANGED <<error, config, market_data, independent_graphs, stocks,
                   stocks_metadata, initial_value, color_list, graphs,
                   current_value, opening_value, populated, output, call_args>>

SpecRepair == InitRepair /\ [][CallRepair]_vars

(***************************************************************************)
(* The claims.                                                             *)
(***************************************************************************)
Terminal == pc \in {"done", "crashed", "exited"}

LedgerSymbols == {stocks[i].symbol : i \in 1..Len(stocks)}

\* the section of portfolio.ini that configures a symbol
SectionOf(symbol) ==
    config[CHOOSE i \in 1..Len(config) : config[i].symbol = symbol]

\* some lot of the section has a quantity <= 0
BadLots(sec) ==
    \/ \E i \in 1..Len(sec.buy) : sec.buy[i].c <= 0
    \/ \E i \in 1..Len(sec.sell) : sec.sell[i].c <= 0

AllPositive(lots) == \A i \in 1..Len(lots) : lots[i].c > 0

\* sums over a lot list, taken from its end
RECURSIVE TotalQty(_)
TotalQty(lots) ==
    IF lots = <<>> THEN 0
    ELSE lots[Len(lots)].c + TotalQty(SubSeq(lots, 1, Len(lots) - 1))

RECURSIVE TotalCost(_)
TotalCost(lots) ==
    IF lots = <<>> THEN 0
    ELSE lots[Len(lots)].c * lots[Len(lots)].p
         + TotalCost(SubSeq(lots, 1, Len(lots) - 1))

\* C1: for buy and sell lots whose quantities are all > 0, average_buyin
\* returns netQuantity = (sum of buy quantities) - (sum of sell quantities);
\* (0, 0) when that is 0; otherwise averageCost with averageCost * netQuantity
\* = (sum of buy qty*price) - (sum of sell qty*price), which with no sells is
\* the quantity-weighted mean of the buy prices.
C1_Theorem ==
    (pc = "returned" /\ AllPositive(call_args.buys) /\ AllPositive(call_args.sells)) =>
        LET net == TotalQty(call_args.buys) - TotalQty(call_args.sells)
            cost == TotalCost(call_args.buys) - TotalCost(call_args.sells)
            avg == call_ret.bought_at
        IN  /\ ~call_ret.exit
            /\ call_ret.count = [nan |-> FALSE, n |-> net, d |-> 1]
            /\ ~avg.nan /\ avg.d > 0
            /\ net = 0 => avg.n = 0
            /\ net # 0 => avg.n * net = avg.d * cost
            /\ (call_args.sells = <<>> /\ call_args.buys # <<>>) =>
                  avg.n * TotalQty(call_args.buys) = avg.d * TotalCost(call_args.buys)

\* 2@3 and 2@5 bought, 1@5 sold: 3 left at 11/3
C1_Witness ==
    /\ pc = "returned"
    /\ call_args.buys = <<[c |-> 2, p |-> 3], [c |-> 2, p |-> 5]>>
    /\ call_args.sells = <<[c |-> 1, p |-> 5]>>
    /\ call_ret = [exit |-> FALSE, count |-> [nan |-> FALSE, n |-> 3, d |-> 1],
                   bought_at |-> [nan |-> FALSE, n |-> 11, d |-> 3]]

\* C2: if any buy or sell lot of any configured symbol has quantity <= 0, that
\* holding is never added to the ledger, populate never returns, no chart is
\* generated or drawn and no table is printed; the run ends in exit() unless a
\* ticker without samples, at or before that symbol, has ended it already.
C2_Theorem ==
    \A i \in 1..Len(config) :
        BadLots(config[i]) =>
            /\ config[i].symbol \notin LedgerSymbols
            /\ ~populated
            /\ pc \in {"verify_config_keys", "populate", "exited", "crashed"}
            /\ graphs = <<>>
            /\ output.charts = 0
            /\ ~output.table_printed
            /\ pc = "crashed" =>
                  /\ error = "IndexError"
                  /\ \E j \in 1..i : market_data[config[j].symbol] = <<>>

\* the second symbol's sell lot is rejected after the first holding was added
C2_Witness ==
    /\ pc = "exited"
    /\ Len(config) = 2
    /\ ~BadLots(config[1])
    /\ \E k \in 1..Len(config[2].sell) : config[2].sell[k].c <= 0
    /\ LedgerSymbols = {config[1].symbol}
    /\ output.charts = 0
    /\ ~output.table_printed

\* C3: once populate has returned, no holding's sample list contains a NaN.
C3_Claim ==
    populated =>
        \A i \in 1..Len(stocks) :
            \A k \in 1..Len(stocks[i].data) : ~isnan(stocks[i].data[k])

\* C4, as claimed: each NaN at index i is replaced by the value at i-1 if that
\* index exists and its value is finite, else by the value at i+1; every other
\* sample is left as it is.
C4_Claim ==
    (pc = "returned" /\ call_ret.err = None) =>
        /\ Len(call_ret.data) = Len(call_args)
        /\ \A i \in 1..Len(call_args) :
              IF ~isnan(call_args[i]) THEN call_ret.data[i] = call_args[i]
              ELSE IF i > 1 /\ ~isnan(call_ret.data[i - 1])
              THEN call_ret.data[i] = call_ret.data[i - 1]
              ELSE i < Len(call_args) => call_ret.data[i] = call_args[i + 1]

\* C4, amended: each NaN at index i > 0 is replaced by the value then at i-1,
\* finite or not; a NaN at index 0 by the value at index 1, and the repair
\* raises IndexError exactly when the series is a single NaN; every other
\* sample is left as it is.
C4_Theorem ==
    pc = "returned" =>
        /\ call_ret.err = "IndexError" <=> (Len(call_args) = 1 /\ isnan(call_args[1]))
        /\ call_ret.err \in {None, "IndexError"}
        /\ call_ret.err = None =>
              /\ Len(call_ret.data) = Len(call_args)
              /\ \A i \in 1..Len(call_args) :
                    call_ret.data[i] =
                        IF ~isnan(call_args[i]) THEN call_args[i]
                        ELSE IF i > 1 THEN call_ret.data[i - 1]
                        ELSE call_args[2]

\* [5.0, NaN, 7.0] becomes [5.0, 5.0, 7.0]
C4_Witness ==
    /\ pc = "returned"
    /\ call_args = <<float(5), NaN, float(7)>>
    /\ call_ret = [err |-> None, data |-> <<float(5), float(5), float(7)>>]

RECURSIVE SumMarketValue(_)
SumMarketValue(n) ==
    IF n = 0 THEN float(0)
    ELSE FAdd(SumMarketValue(n - 1),
              FMul(stocks[n].data[Len(stocks[n].data)],
                   stocks_metadata[stocks[n].symbol][1]))

RECURSIVE SumOpeningValue(_)
SumOpeningValue(n) ==
    IF n = 0 THEN float(0)
    ELSE FAdd(SumOpeningValue(n - 1),
              FMul(stocks[n].data[1], stocks_metadata[stocks[n].symbol][1]))

RECURSIVE SumCost(_)
SumCost(n) ==
    IF n = 0 THEN float(0)
    ELSE FAdd(SumCost(n - 1),
              FMul(stocks_metadata[stocks[n].symbol][1],
                   stocks_metadata[stocks[n].symbol][2]))

\* C6: once print_table has printed the table, current_value is the sum over
\* the holdings of last sample * quantity, opening_value the sum of first
\* sample * quantity, initial_value the sum of quantity * averageCost; a
\* reported "Today" gain is current_value - opening_value and a reported
\* "Overall" gain is current_value - initial_value, and a print_table that
\* returns has reported both.
C6_Theorem ==
    output.table_printed =>
        /\ current_value = SumMarketValue(Len(stocks))
        /\ opening_value = SumOpeningValue(Len(stocks))
        /\ initial_value = SumCost(Len(stocks))
        /\ \A k \in 1..Len(output.gains) :
              /\ output.gains[k].timespan = "Today" =>
                    output.gains[k].gain = FSub(current_value, opening_value)
              /\ output.gains[k].timespan = "Overall" =>
                    output.gains[k].gain = FSub(current_value, initial_value)
        /\ pc = "done" =>
              /\ Len(output.gains) = 2
              /\ output.gains[1].timespan = "Today"
              /\ output.gains[2].timespan = "Overall"

\* two holdings of 2 shares bought at 6 and now at 7: 28 against 24 and 20
C6_Witness ==
    /\ pc = "done"
    /\ Len(stocks) = 2
    /\ current_value = float(28)
    /\ opening_value = float(20)
    /\ initial_value = float(24)
    /\ output.gains[1].gain = float(8)
    /\ output.gains[2].gain = float(4)

\* C7: a holding whose requested color is unset is drawn in
\* palette[index mod len(palette)], index being its index in the ledger.
C7_Claim ==
    \A g \in 1..Len(graphs) :
        \A k \in 1..Len(graphs[g].lines) :
            SectionOf(graphs[g].lines[k].label).color = None =>
                graphs[g].lines[k].lc =
                    [src |-> "auto_colors",
                     idx |-> (KeyIndex(stocks, graphs[g].lines[k].label) - 1)
                                % AutoColorCycle,
                     name |-> ""]

\* C8: with no holdings configured the run shows the message, draws no chart,
\* prints no table and does not end in a division by zero.
C8_Claim ==
    Len(config) = 0 =>
        /\ output.charts = 0
        /\ ~output.table_printed
        /\ error # "ZeroDivisionError"
        /\ pc # "verify_config_keys" => output.messages = <<"nothing to show">>

\* C9: with a non-empty ledger and no holding graph-flagged, gen_graphs
\* builds no chart and does not raise, print_graphs draws nothing, and the
\* table is printed: the run ends only after the table.
C9_Theorem ==
    (populated /\ Len(stocks) > 0 /\ \A i \in 1..Len(stocks) : ~stocks[i].graph) =>
        /\ graphs = <<>>
        /\ output.charts = 0
        /\ pc # "exited"
        /\ Terminal => output.table_printed

\* two holdings, none graph-flagged, combined mode: the table and no chart
C9_Witness ==
    /\ pc = "done"
    /\ ~independent_graphs
    /\ Len(stocks) = 2
    /\ \A i \in 1..Len(stocks) : ~stocks[i].graph
    /\ graphs = <<>>
    /\ output.charts = 0
    /\ output.table_printed

\* C10: in every chart the k-th color is the color configured (and checked by
\* populate) for the holding of the k-th series.
C10_Claim ==
    \A g \in 1..Len(graphs) :
        /\ Len(graphs[g].colors) = Len(graphs[g].stocks)
        /\ \A k \in 1..Len(graphs[g].stocks) :
              graphs[g].colors[k] = checked_color(SectionOf(graphs[g].stocks[k]).color)

(***************************************************************************)
(* add_stock on its own: up to MaxAdds calls on a fresh ledger, a symbol    *)
(* may come again.  call_args keeps the calls made so far.                  *)
(***************************************************************************)
MaxAdds == 3

AddCounts == {float(1), float(2)}
AddValues == {float(5)}
AddColors == {None, "red"}
AddSymbols == {Symbols[1], Symbols[2]}

InitAddStock ==
    /\ pc = "ledger"
    /\ call_args = <<>>
    /\ call_ret = <<>>
    /\ error = None
    /\ config = <<>>
    /\ market_data = <<>>
    /\ independent_graphs = FALSE
    /\ stocks = Portfolio.stocks
    /\ stocks_metadata = Portfolio.stocks_metadata
    /\ initial_value = Portfolio.initial_value
    /\ color_list = Portfolio.color_list
    /\ graphs = <<>>
    /\ current_value = float(0)
    /\ opening_value = float(0)
    /\ populated = FALSE
    /\ output = NoOutput

\* portfolio.add_stock(Stock(symbol), count, value, color)
CallAddStock ==
    /\ pc = "ledger"
    /\ Len(call_args) < MaxAdds
    /\ \E symbol \in AddSymbols, count \in AddCounts, value \in AddValues,
          color \in AddColors :
        LET P == add_stock([stocks |-> stocks, stocks_metadata |-> stocks_metadata,
                            initial_value |-> initial_value,
                            color_list |-> color_list],
                           Stock(symbol), count, value, color)
        IN  /\ stocks' = P.stocks
            /\ stocks_metadata' = P.stocks_metadata
            /\ initial_value' = P.initial_value
            /\ color_list' = P.color_list
            /\ call_args' = Append(call_args,
                                   [symbol |-> symbol, count |-> count,
                                    value |-> value, color |-> color])
    /\ UNCHANGED <<pc, error, config, market_data, independent_graphs, graphs,
                   current_value, opening_value, populated, output, call_ret>>

SpecAddStock == InitAddStock /\ [][CallAddStock]_vars

\* the color of the latest add_stock call for a symbol
LastColor(symbol) ==
    call_args[CHOOSE k \in 1..Len(call_args) :
                 /\ call_args[k].symbol = symbol
                 /\ \A j \in (k + 1)..Len(call_args) : call_args[j].symbol # symbol].color

\* C11: after any sequence of add_stock calls, a symbol possibly coming again,
\* initial_value is the sum over the symbols in the ledger of quantity *
\* averageCost as stocks_metadata holds them, and color_list has one entry per
\* holding, in the ledger's order.
C11_Claim ==
    pc = "ledger" =>
        /\ initial_value = SumCost(Len(stocks))
        /\ Len(color_list) = Len(stocks)
        /\ \A i \in 1..Len(stocks) : color_list[i] = LastColor(stocks[i].symbol)

\* the same for calls that all name different symbols
C11_DistinctSymbols ==
    (pc = "ledger" /\ Len(stocks) = Len(call_args)) =>
        /\ initial_value = SumCost(Len(stocks))
        /\ Len(color_list) = Len(stocks)
        /\ \A i \in 1..Len(stocks) : color_list[i] = LastColor(stocks[i].symbol)

====
